---- MODULE Spec2Model ----
(***************************************************************************)
(* Idempotency engine of src/Idempotency_Engine/main.py.                   *)
(*                                                                         *)
(* PaymentProcessor keeps a dict processed_keys (insertion ordered) from   *)
(* idempotency key to the stored success message.  process_payment checks  *)
(* membership, performs the simulated debit (the "Processing payment"      *)
(* line), stores the message and then draws random.random() < 0.2 to       *)
(* decide whether the response is lost (ConnectionError).                  *)
(*                                                                         *)
(* Spec       : calls made one after another, each call one atomic action. *)
(* SpecConc   : several callers whose calls interleave statement by        *)
(*              statement (the code takes no lock).                        *)
(* SpecDriver : the module-level driver of lines 82-122: up to eight       *)
(*              transactions with fresh keys, one retry, the snapshot.     *)
(***************************************************************************)
EXTENDS Integers, Sequences, FiniteSets, TLC

VARIABLES
    processed_keys,      \* the dict of line 24: sequence of <<key, message>>
    debits,              \* per key, how often line 51 (the debit) ran
    draws,               \* how many times random.random() was called
    history,             \* completed calls, in order of completion
    failure_probability, \* the configuration the engine is asked to use
    pc, ckey, camount, cresult,  \* frames of the interleaved callers
    dpc,                 \* where the driver is: loop, retry, snapshot, done
    tx_number,           \* loop variable of line 86
    failed_key,          \* line 83: None or the failed key
    failed_amount,       \* line 84: <<>> for None, else <<amount>>
    statuses,            \* the <<key, status>> lines printed by line 107
    retry_status,        \* the status printed by line 117
    snapshot             \* the keys printed by lines 121-122

callerVars == <<pc, ckey, camount, cresult>>

driverVars == <<dpc, tx_number, failed_key, failed_amount, statuses,
                retry_status, snapshot>>

vars == <<processed_keys, debits, draws, history, failure_probability,
          callerVars, driverVars>>

(* ---------------------------- bounds ----------------------------------- *)
MaxCalls == 4
MaxConcCalls == 2
NumCallers == 2
NumUUIDs == 8
UUIDChoices == 2
\* line 82
max_transactions == 8

Keys == {"k1", "k2"}
\* the frame of a caller that is not inside process_payment holds no key
NoKey == "none"
\* amounts in hundredths of a naira: -5.00, 50.00, 1000.00
Amounts == {-500, 5000, 100000}
\* random.random() lies in [0, 1); samples and probabilities in tenths
Samples == {0, 1, 2, 5, 9}
Probabilities == {0, 2, 10}
Callers == 1 .. NumCallers
\* line 92: the keys uuid.uuid4() can produce
UUIDName == <<"u1", "u2", "u3", "u4", "u5", "u6", "u7", "u8", "u9", "u10">>
UUIDs == {UUIDName[i] : i \in 1 .. NumUUIDs}
\* Python's None (line 83)
None == "None"

(* ------------------------- pure helpers -------------------------------- *)
\* str(Decimal) of an amount with two decimal places: sign, units, cents
DecimalStr(amount) ==
    LET abs == IF amount < 0 THEN 0 - amount ELSE amount
    IN  <<IF amount < 0 THEN "-" ELSE "", abs \div 100, abs % 100>>

\* line 52: the f-string stored under the key
FormatResult(amount, idempotency_key) ==
    <<"Success: processed payment of ", DecimalStr(amount),
      " with key ", idempotency_key>>

\* line 48: the constant message of the idempotency path
AlreadyProcessed == <<"Payment already processed.">>

\* membership that looks only at the most recently stored key
KeyInLast(d, k) == Len(d) > 0 /\ d[Len(d)][1] = k

\* line 47: idempotency_key in self.processed_keys
KeyIn(d, k) == \E i \in 1 .. Len(d) : d[i][1] = k

\* self.processed_keys[k] (read)
DictGet(d, k) == d[CHOOSE i \in 1 .. Len(d) : d[i][1] = k][2]

\* a store write that rebinds the dict to the single new entry
DictSetRebind(d, k, v) == <<<<k, v>>>>

\* line 53: self.processed_keys[k] = v; a new key is appended, an existing
\* key keeps its position and has its value replaced
DictSet(d, k, v) ==
    IF KeyIn(d, k)
    THEN [i \in 1 .. Len(d) |-> IF d[i][1] = k THEN <<k, v>> ELSE d[i]]
    ELSE Append(d, <<k, v>>)

\* line 56: random.random() < 0.2
NetworkFails(sample) == sample < 2

Return(value) == [kind |-> "return", value |-> value]
Raise(exc) == [kind |-> "raise", value |-> <<exc>>]

\* lines 56-63: the way the committing call ends
Respond(result, sample) ==
    IF NetworkFails(sample) THEN Raise("ConnectionError") ELSE Return(result)

CallRecord(k, a, out) == [key |-> k, amount |-> a, out |-> out]

\* lines 95-105: how a caller classifies the end of a call
AttemptResult(out) ==
    IF out.kind = "raise" THEN "AcknowledgmentFailure"
    ELSE IF out.value = AlreadyProcessed THEN "Duplicate"
    ELSE "Committed"

(* ------------------------------ Init ----------------------------------- *)
Init ==
    /\ processed_keys = <<>>
    /\ debits = [k \in Keys \cup UUIDs |-> 0]
    /\ draws = 0
    /\ history = <<>>
    /\ failure_probability \in Probabilities
    /\ pc = [t \in Callers |-> "idle"]
    /\ ckey = [t \in Callers |-> NoKey]
    /\ camount = [t \in Callers |-> 0]
    /\ cresult = [t \in Callers |-> <<>>]
    /\ dpc = "loop"
    /\ tx_number = 1
    /\ failed_key = None
    /\ failed_amount = <<>>
    /\ statuses = <<>>
    /\ retry_status = None
    /\ snapshot = <<>>

(* ------------- faulty variants of process_payment ---------------------- *)
\* the response is lost before the store write: nothing is stored on failure
process_payment_raise_before_store(idempotency_key, amount, sample) ==
    /\ IF KeyIn(processed_keys, idempotency_key)
       THEN /\ history' = Append(history,
                   CallRecord(idempotency_key, amount, Return(AlreadyProcessed)))
            /\ UNCHANGED <<processed_keys, debits, draws>>
       ELSE LET result == FormatResult(amount, idempotency_key)
            IN  /\ debits' = [debits EXCEPT ![idempotency_key] = @ + 1]
                /\ draws' = draws + 1
                /\ processed_keys' = IF NetworkFails(sample) THEN processed_keys
                       ELSE DictSet(processed_keys, idempotency_key, result)
                /\ history' = Append(history,
                       CallRecord(idempotency_key, amount, Respond(result, sample)))
    /\ UNCHANGED <<failure_probability, callerVars>>

\* a known key is accepted only when the amount matches the stored message;
\* otherwise the payment is processed again
process_payment_amount_checked(idempotency_key, amount, sample) ==
    /\ IF /\ KeyIn(processed_keys, idempotency_key)
          /\ DictGet(processed_keys, idempotency_key)
                 = FormatResult(amount, idempotency_key)
       THEN /\ history' = Append(history,
                   CallRecord(idempotency_key, amount, Return(AlreadyProcessed)))
            /\ UNCHANGED <<processed_keys, debits, draws>>
       ELSE LET result == FormatResult(amount, idempotency_key)
            IN  /\ debits' = [debits EXCEPT ![idempotency_key] = @ + 1]
                /\ processed_keys' = DictSet(processed_keys, idempotency_key, result)
                /\ draws' = draws + 1
                /\ history' = Append(history,
                       CallRecord(idempotency_key, amount, Respond(result, sample)))
    /\ UNCHANGED <<failure_probability, callerVars>>

\* the failure draw is made on entry, before the idempotency path
process_payment_draw_on_entry(idempotency_key, amount, sample) ==
    /\ draws' = draws + 1
    /\ IF KeyIn(processed_keys, idempotency_key)
       THEN /\ history' = Append(history,
                   CallRecord(idempotency_key, amount,
                              Respond(AlreadyProcessed, sample)))
            /\ UNCHANGED <<processed_keys, debits>>
       ELSE LET result == FormatResult(amount, idempotency_key)
            IN  /\ debits' = [debits EXCEPT ![idempotency_key] = @ + 1]
                /\ processed_keys' = DictSet(processed_keys, idempotency_key, result)
                /\ history' = Append(history,
                       CallRecord(idempotency_key, amount, Respond(result, sample)))
    /\ UNCHANGED <<failure_probability, callerVars>>

\* the idempotency path writes its response into the store before returning
process_payment_store_on_duplicate(idempotency_key, amount, sample) ==
    /\ IF KeyIn(processed_keys, idempotency_key)
       THEN /\ history' = Append(history,
                   CallRecord(idempotency_key, amount, Return(AlreadyProcessed)))
            /\ processed_keys' = DictSet(processed_keys, idempotency_key,
                                         AlreadyProcessed)
            /\ UNCHANGED <<debits, draws>>
       ELSE LET result == FormatResult(amount, idempotency_key)
            IN  /\ debits' = [debits EXCEPT ![idempotency_key] = @ + 1]
                /\ processed_keys' = DictSet(processed_keys, idempotency_key, result)
                /\ draws' = draws + 1
                /\ history' = Append(history,
                       CallRecord(idempotency_key, amount, Respond(result, sample)))
    /\ UNCHANGED <<failure_probability, callerVars>>

(* ----------------- process_payment as one atomic call ------------------ *)
process_payment(idempotency_key, amount, sample) ==
    /\ IF KeyIn(processed_keys, idempotency_key)
       THEN /\ history' = Append(history,
                   CallRecord(idempotency_key, amount, Return(AlreadyProcessed)))
            /\ UNCHANGED <<processed_keys, debits, draws>>
       ELSE LET result == FormatResult(amount, idempotency_key)
            IN  /\ debits' = [debits EXCEPT ![idempotency_key] = @ + 1]
                /\ processed_keys' = DictSet(processed_keys, idempotency_key, result)
                /\ draws' = draws + 1
                /\ history' = Append(history,
                       CallRecord(idempotency_key, amount, Respond(result, sample)))
    /\ UNCHANGED <<failure_probability, callerVars>>

Next ==
    \E k \in Keys, a \in Amounts, s \in Samples :
        /\ Len(history) < MaxCalls
        /\ process_payment(k, a, s)
        /\ UNCHANGED driverVars

Spec == Init /\ [][Next]_vars

(* ------------- process_payment statement by statement ------------------ *)
\* line 26: a caller enters process_payment
Enter(t, k, a) ==
    /\ pc[t] = "idle"
    /\ Len(history) + Cardinality({u \in Callers : pc[u] # "idle"}) < MaxConcCalls
    /\ pc' = [pc EXCEPT ![t] = "check"]
    /\ ckey' = [ckey EXCEPT ![t] = k]
    /\ camount' = [camount EXCEPT ![t] = a]
    /\ cresult' = [cresult EXCEPT ![t] = <<>>]
    /\ UNCHANGED <<processed_keys, debits, draws, history, failure_probability,
                   driverVars>>

\* lines 47-48: membership test, early return on a known key
CheckKey(t) ==
    /\ pc[t] = "check"
    /\ IF KeyIn(processed_keys, ckey[t])
       THEN /\ history' = Append(history,
                   CallRecord(ckey[t], camount[t], Return(AlreadyProcessed)))
            /\ pc' = [pc EXCEPT ![t] = "idle"]
            /\ ckey' = [ckey EXCEPT ![t] = NoKey]
            /\ camount' = [camount EXCEPT ![t] = 0]
       ELSE /\ pc' = [pc EXCEPT ![t] = "debit"]
            /\ UNCHANGED <<history, ckey, camount>>
    /\ UNCHANGED <<processed_keys, debits, draws, failure_probability, cresult,
                   driverVars>>

\* the key is written to the store where the debit should run
Debit_after_store(t) ==
    /\ pc[t] = "debit"
    /\ cresult' = [cresult EXCEPT ![t] = FormatResult(camount[t], ckey[t])]
    /\ processed_keys' = DictSet(processed_keys, ckey[t], cresult'[t])
    /\ pc' = [pc EXCEPT ![t] = "store"]
    /\ UNCHANGED <<debits, draws, history, failure_probability,
                   ckey, camount, driverVars>>

\* lines 51-52: the simulated debit and the message it produces
Debit(t) ==
    /\ pc[t] = "debit"
    /\ debits' = [debits EXCEPT ![ckey[t]] = @ + 1]
    /\ cresult' = [cresult EXCEPT ![t] = FormatResult(camount[t], ckey[t])]
    /\ pc' = [pc EXCEPT ![t] = "store"]
    /\ UNCHANGED <<processed_keys, draws, history, failure_probability,
                   ckey, camount, driverVars>>

\* line 53: the store write
StoreResult(t) ==
    /\ pc[t] = "store"
    /\ processed_keys' = DictSet(processed_keys, ckey[t], cresult[t])
    /\ pc' = [pc EXCEPT ![t] = "draw"]
    /\ UNCHANGED <<debits, draws, history, failure_probability,
                   ckey, camount, cresult, driverVars>>

\* lines 56-63: the failure draw and the response
Draw(t, sample) ==
    /\ pc[t] = "draw"
    /\ draws' = draws + 1
    /\ history' = Append(history,
           CallRecord(ckey[t], camount[t], Respond(cresult[t], sample)))
    /\ pc' = [pc EXCEPT ![t] = "idle"]
    /\ ckey' = [ckey EXCEPT ![t] = NoKey]
    /\ camount' = [camount EXCEPT ![t] = 0]
    /\ cresult' = [cresult EXCEPT ![t] = <<>>]
    /\ UNCHANGED <<processed_keys, debits, failure_probability, driverVars>>

NextConc ==
    \/ \E t \in Callers, k \in Keys, a \in Amounts : Enter(t, k, a)
    \/ \E t \in Callers : CheckKey(t)
    \/ \E t \in Callers : Debit(t)
    \/ \E t \in Callers : StoreResult(t)
    \/ \E t \in Callers, s \in Samples : Draw(t, s)

SpecConc == Init /\ [][NextConc]_vars

(* --------------------- the driver, lines 82-122 ------------------------ *)
\* line 93: Decimal("1000.00"), in hundredths
current_amount == 100000

\* lines 98, 103, 113, 115: the status label of a call
StatusLabel(out) ==
    IF out.kind = "raise" THEN "Failed"
    ELSE IF out.value = AlreadyProcessed THEN "Already processed"
    ELSE "Successful"

\* the keys generated so far (one per printed transaction line)
Generated == {statuses[i][1] : i \in DOMAIN statuses}

\* line 92: uuid.uuid4() yields a key that was not generated before.  Keys
\* are opaque and only compared for equality, so the choice is kept to the
\* UUIDChoices lowest-numbered unused names.
uuid4 ==
    {UUIDName[i] : i \in {i \in 1 .. NumUUIDs :
        /\ UUIDName[i] \notin Generated
        /\ Cardinality({j \in 1 .. i - 1 : UUIDName[j] \notin Generated})
               < UUIDChoices}}

\* the keys of the dict in iteration order (lines 121-122)
StoredKeys(d) == [i \in 1 .. Len(d) |-> d[i][1]]

\* a loop body that lacks the break of lines 87-89
Transaction_no_break(current_key, sample) ==
    /\ dpc = "loop"
    /\ tx_number <= max_transactions
    /\ process_payment(current_key, current_amount, sample)
    /\ LET out == history'[Len(history')].out
       IN  /\ statuses' = Append(statuses, <<current_key, StatusLabel(out)>>)
           /\ failed_key' = IF out.kind = "raise" THEN current_key ELSE failed_key
           /\ failed_amount' = IF out.kind = "raise" THEN <<current_amount>>
                               ELSE failed_amount
    /\ tx_number' = tx_number + 1
    /\ UNCHANGED <<dpc, retry_status, snapshot>>

\* lines 86-107: one iteration of the transaction loop.  tx_number holds the
\* value the range iterator hands out next.
Transaction(current_key, sample) ==
    /\ dpc = "loop"
    /\ tx_number <= max_transactions
    /\ failed_key = None
    /\ process_payment(current_key, current_amount, sample)
    /\ LET out == history'[Len(history')].out
       IN  /\ statuses' = Append(statuses, <<current_key, StatusLabel(out)>>)
           /\ failed_key' = IF out.kind = "raise" THEN current_key ELSE failed_key
           /\ failed_amount' = IF out.kind = "raise" THEN <<current_amount>>
                               ELSE failed_amount
    /\ tx_number' = tx_number + 1
    /\ UNCHANGED <<dpc, retry_status, snapshot>>

\* lines 86-89: the loop ends, by the break or because the range is used up
LoopExit ==
    /\ dpc = "loop"
    /\ (failed_key # None \/ tx_number > max_transactions)
    /\ dpc' = "retry"
    /\ UNCHANGED <<processed_keys, debits, draws, history, failure_probability,
                   callerVars, tx_number, failed_key, failed_amount, statuses,
                   retry_status, snapshot>>

\* a retry block that repeats the call until it is reported as successful
Retry_until_successful(sample) ==
    /\ dpc = "retry"
    /\ failed_key # None
    /\ process_payment(failed_key, failed_amount[1], sample)
    /\ retry_status' = StatusLabel(history'[Len(history')].out)
    /\ dpc' = IF retry_status' = "Successful" THEN "snapshot" ELSE "retry"
    /\ UNCHANGED <<tx_number, failed_key, failed_amount, statuses, snapshot>>

\* lines 110-117: the single retry of the failed key
Retry(sample) ==
    /\ dpc = "retry"
    /\ failed_key # None
    /\ process_payment(failed_key, failed_amount[1], sample)
    /\ retry_status' = StatusLabel(history'[Len(history')].out)
    /\ dpc' = "snapshot"
    /\ UNCHANGED <<tx_number, failed_key, failed_amount, statuses, snapshot>>

\* line 110 when no transaction failed
SkipRetry ==
    /\ dpc = "retry"
    /\ failed_key = None
    /\ dpc' = "snapshot"
    /\ UNCHANGED <<processed_keys, debits, draws, history, failure_probability,
                   callerVars, tx_number, failed_key, failed_amount, statuses,
                   retry_status, snapshot>>

\* lines 119-122: the database snapshot
Snapshot ==
    /\ dpc = "snapshot"
    /\ snapshot' = StoredKeys(processed_keys)
    /\ dpc' = "done"
    /\ UNCHANGED <<processed_keys, debits, draws, history, failure_probability,
                   callerVars, tx_number, failed_key, failed_amount, statuses,
                   retry_status>>

NextDriver ==
    \/ \E k \in uuid4, s \in Samples : Transaction(k, s)
    \/ LoopExit
    \/ \E s \in Samples : Retry(s)
    \/ SkipRetry
    \/ Snapshot

SpecDriver == Init /\ [][NextDriver]_vars

\* the driver is a sequential program: it always takes its next step
SpecDriverFair == SpecDriver /\ WF_vars(NextDriver)

(* ===================== properties of the engine ======================== *)
\* vocabulary of the properties, independent of the helpers above
Entries(k) == {i \in DOMAIN processed_keys : processed_keys[i][1] = k}
Stored(k) == Entries(k) # {}
OutcomeOf(k) == processed_keys[CHOOSE i \in Entries(k) : TRUE][2]
Done == DOMAIN history
Result(i) == AttemptResult(history[i].out)
FirstOnKey(i) == \A j \in Done : j < i => history[j].key # history[i].key
\* a step that completes one call
Completes == Len(history') = Len(history) + 1
Latest == history'[Len(history')]

\* C1 -- at-most-once: over any sequence of calls made one after another the
\* debit for a key runs at most once and the key has at most one stored
\* Outcome; a key that was called (with a proper amount) has exactly one
\* debit and exactly one Outcome, however many calls followed.
AtMostOnce ==
    \A k \in Keys :
        /\ debits[k] <= 1
        /\ Cardinality(Entries(k)) <= 1
        /\ (\E i \in Done : history[i].key = k /\ history[i].amount >= 0)
               => debits[k] = 1 /\ Cardinality(Entries(k)) = 1

\* three calls on k1 with a call on k2 in between, one debit for k1
AtMostOnceWitness ==
    /\ Cardinality({i \in Done : history[i].key = "k1"
                                    /\ history[i].amount >= 0}) >= 3
    /\ \E i, j, l \in Done : /\ i < j /\ j < l
                             /\ history[i].key = "k1" /\ history[j].key = "k2"
                             /\ history[l].key = "k1"
    /\ debits["k1"] = 1

\* C2 -- every call after the commit returns Duplicate carrying the Outcome,
\* identical to the Outcome the committing call stored.
DuplicateCarriesOutcome ==
    \A i \in Done :
        ~FirstOnKey(i) =>
            /\ Result(i) = "Duplicate"
            /\ history[i].out.value = OutcomeOf(history[i].key)

\* C3 -- commit precedes signal: whenever a call ended with ConnectionError
\* the store holds the Outcome of that call for its key, then and ever after.
CommitPrecedesSignal ==
    \A i \in Done :
        Result(i) = "AcknowledgmentFailure" =>
            /\ Stored(history[i].key)
            /\ OutcomeOf(history[i].key)
                   = FormatResult(history[i].amount, history[i].key)

\* the latest call ended with ConnectionError
CommitPrecedesSignalWitness ==
    /\ Len(history) >= 1
    /\ Result(Len(history)) = "AcknowledgmentFailure"
    /\ Stored(history[Len(history)].key)

\* C4 -- retry convergence: a call that repeats the key and amount of a call
\* that ended with ConnectionError returns Duplicate and leaves the stored
\* Outcome of the key as it was.
RetryConverges ==
    [][ \A i \in Done :
            ( /\ Completes
              /\ Result(i) = "AcknowledgmentFailure"
              /\ Latest.key = history[i].key
              /\ Latest.amount = history[i].amount )
            => /\ AttemptResult(Latest.out) = "Duplicate"
               /\ processed_keys' = processed_keys
               /\ OutcomeOf(history[i].key)
                      = FormatResult(history[i].amount, history[i].key) ]_vars

\* a failed call followed by its retry
RetryConvergesWitness ==
    \E i, j \in Done :
        /\ i < j
        /\ Result(i) = "AcknowledgmentFailure"
        /\ history[j].key = history[i].key
        /\ history[j].amount = history[i].amount
        /\ Result(j) = "Duplicate"

\* C5 -- under interleaved calls on one key exactly one caller performs the
\* debit and gets a non-duplicate response; all others get Duplicate.
OneCommitterPerKey ==
    \A k \in Keys :
        /\ debits[k] <= 1
        /\ Cardinality({i \in Done : history[i].key = k
                                        /\ Result(i) # "Duplicate"}) <= 1

\* C6 -- Outcome immutability: a key never has more than one Outcome, and
\* once a key has an Outcome no call changes or removes it.
OutcomeImmutable ==
    /\ [](\A k \in Keys : Cardinality(Entries(k)) <= 1)
    /\ [][ \A k \in Keys :
               Stored(k) => /\ Cardinality({i \in DOMAIN processed_keys' :
                                               processed_keys'[i][1] = k}) = 1
                            /\ \E i \in DOMAIN processed_keys' :
                                   processed_keys'[i] = <<k, OutcomeOf(k)>> ]_vars

\* a stored key was called again with another amount, and another key was
\* committed after it
OutcomeImmutableWitness ==
    /\ Stored("k1") /\ Stored("k2")
    /\ \E i, j, l \in Done :
           /\ i < j /\ j < l
           /\ history[i].key = "k1" /\ history[j].key = "k2"
           /\ history[l].key = "k1" /\ history[l].amount # history[i].amount
           /\ OutcomeOf("k1") = FormatResult(history[i].amount, "k1")

\* C7 -- the amount is not checked on duplicates: a call on a key that has
\* an Outcome returns Duplicate whatever amount it passes, performs no debit
\* and leaves the Outcome recording the first amount.
AmountNotChecked ==
    [][ (Completes /\ Stored(Latest.key))
            => /\ AttemptResult(Latest.out) = "Duplicate"
               /\ debits' = debits
               /\ \E i \in DOMAIN processed_keys' :
                      processed_keys'[i] = <<Latest.key, OutcomeOf(Latest.key)>> ]_vars

\* a duplicate call that passed an amount other than the committed one
AmountNotCheckedWitness ==
    \E i, j \in Done :
        /\ i < j /\ FirstOnKey(i)
        /\ history[j].key = history[i].key
        /\ history[j].amount # history[i].amount
        /\ Result(j) = "Duplicate"
        /\ OutcomeOf(history[i].key)
               = FormatResult(history[i].amount, history[i].key)
        /\ debits[history[i].key] = 1

\* C8 -- input validation: a call with a negative amount on an unseen key
\* fails with InvalidAmount, performs no debit and leaves the key unseen.
NegativeAmountRejected ==
    \A i \in Done :
        (history[i].amount < 0 /\ FirstOnKey(i)) =>
            /\ history[i].out = Raise("InvalidAmount")
            /\ (i = Len(history) =>
                    ~Stored(history[i].key) /\ debits[history[i].key] = 0)

\* C9 -- the configured failure_probability governs the committing call:
\* with 1.0 the first call on every fresh key ends in AcknowledgmentFailure,
\* with 0.0 it returns Committed and no call ends in AcknowledgmentFailure.
FailureProbabilityGoverns ==
    \A i \in Done :
        /\ (failure_probability = 10 /\ FirstOnKey(i))
               => Result(i) = "AcknowledgmentFailure"
        /\ (failure_probability = 0 /\ FirstOnKey(i)) => Result(i) = "Committed"
        /\ failure_probability = 0 => Result(i) # "AcknowledgmentFailure"

\* C10 -- failure injection only on the committing call: a call that ends in
\* AcknowledgmentFailure found its key absent, stored the Outcome and drew
\* one sample; a call on a key that has an Outcome draws no sample and never
\* ends in AcknowledgmentFailure.
FailureOnlyOnCommit ==
    [][ Completes =>
          /\ AttemptResult(Latest.out) = "AcknowledgmentFailure"
                 => /\ ~Stored(Latest.key)
                    /\ <<Latest.key, FormatResult(Latest.amount, Latest.key)>>
                           = processed_keys'[Len(processed_keys')]
                    /\ draws' = draws + 1
          /\ Stored(Latest.key)
                 => /\ draws' = draws
                    /\ AttemptResult(Latest.out) # "AcknowledgmentFailure" ]_vars

\* a committing call that lost its response and a later call on the stored
\* key; only the first drew a sample
FailureOnlyOnCommitWitness ==
    /\ Len(history) = 2
    /\ Result(1) = "AcknowledgmentFailure"
    /\ history[2].key = history[1].key
    /\ Result(2) = "Duplicate"
    /\ draws = 1

\* C11 -- the duplicate path has no effect: a call that returns Duplicate
\* leaves every key and every stored Outcome, and the debits made, exactly
\* as they were, each time it is repeated.
DuplicateHasNoEffect ==
    [][ (Completes /\ AttemptResult(Latest.out) = "Duplicate")
            => /\ processed_keys' = processed_keys
               /\ debits' = debits ]_vars

\* two keys stored, then the duplicate call on k1 made twice
DuplicateHasNoEffectWitness ==
    /\ Len(history) = 4
    /\ history[1].key = "k1" /\ history[2].key = "k2"
    /\ history[3].key = "k1" /\ Result(3) = "Duplicate"
    /\ history[4].key = "k1" /\ Result(4) = "Duplicate"
    /\ Len(processed_keys) = 2

\* C12 -- the store shows only fully committed keys: in every state of
\* interleaved calls each visible key has a complete Outcome (the success
\* message of some call on that key) whose debit has already run.
SnapshotOnlyCommitted ==
    \A i \in DOMAIN processed_keys :
        LET k == processed_keys[i][1]
        IN  /\ debits[k] >= 1
            /\ \E a \in Amounts : processed_keys[i][2] = FormatResult(a, k)

\* one key is visible while a caller is in the middle of committing another
\* key (debit done, store write pending), which is not visible
SnapshotOnlyCommittedWitness ==
    \E t \in Callers :
        /\ pc[t] = "store"
        /\ ~Stored(ckey[t])
        /\ debits[ckey[t]] = 1
        /\ Len(processed_keys) = 1

(* ===================== properties of the driver ======================== *)
FailedAt == {i \in DOMAIN statuses : statuses[i][2] = "Failed"}

\* C13 -- the driver stops at the first failure: once a transaction has
\* status Failed no further transaction is started, so at most one
\* transaction is Failed and it is the last one generated.
DriverStopsAtFirstFailure ==
    /\ [](/\ Cardinality(FailedAt) <= 1
          /\ \A i \in FailedAt : i = Len(statuses))
    /\ [][ FailedAt # {} => /\ statuses' = statuses
                            /\ tx_number' = tx_number ]_vars

\* the third transaction failed and the driver ran to its end
DriverStopsAtFirstFailureWitness ==
    /\ dpc = "done"
    /\ Len(statuses) = 3
    /\ statuses[1][2] = "Successful" /\ statuses[2][2] = "Successful"
    /\ statuses[3][2] = "Failed"

\* C14 -- the driver retries if and only if a transaction was Failed, exactly
\* once, with the failed transaction's key and amount, and the retry's
\* status is always "Already processed".
DriverRetry ==
    /\ dpc \in {"loop", "retry"} =>
           retry_status = None /\ Len(history) = Len(statuses)
    /\ dpc \in {"snapshot", "done"} =>
           /\ retry_status # None <=> FailedAt # {}
           /\ retry_status = None => Len(history) = Len(statuses)
           /\ retry_status # None =>
                  /\ retry_status = "Already processed"
                  /\ Len(history) = Len(statuses) + 1
                  /\ history[Len(history)].key = statuses[Len(statuses)][1]
                  /\ history[Len(history)].key = history[Len(statuses)].key
                  /\ history[Len(history)].amount = history[Len(statuses)].amount

\* the second transaction failed and was retried
DriverRetryWitness ==
    /\ dpc = "done"
    /\ Len(statuses) = 2
    /\ statuses[2][2] = "Failed"
    /\ retry_status = "Already processed"
    /\ Len(history) = 3

\* C15 -- the driver terminates: whatever the failure draws, it reaches its
\* end after at most max_transactions first attempts and at most one retry.
DriverTerminates ==
    /\ <>(dpc = "done")
    /\ [](/\ Len(statuses) <= max_transactions
          /\ Len(history) <= max_transactions + 1
          /\ Len(history) - Len(statuses) <= 1)

\* the longest run: seven successes, a failure on the eighth, the retry
DriverTerminatesWitness ==
    /\ dpc = "done"
    /\ Len(statuses) = max_transactions
    /\ Len(history) = max_transactions + 1

RECURSIVE SumOver(_, _)
SumOver(f, S) ==
    IF S = {} THEN 0
    ELSE LET x == CHOOSE y \in S : TRUE IN f[x] + SumOver(f, S \ {x})

\* C16 -- under sequential calls the number of stored keys equals the number
\* of debits made, which equals the number of calls that returned Committed
\* or AcknowledgmentFailure; a call reported as failed counts as stored.
StoreCountsDebits ==
    /\ Len(processed_keys) = SumOver(debits, DOMAIN debits)
    /\ Len(processed_keys)
           = Cardinality({i \in Done : Result(i) # "Duplicate"})

\* one call reported as failed, one committed, one duplicate: two keys
StoreCountsDebitsWitness ==
    /\ Len(history) = 3
    /\ Result(1) = "AcknowledgmentFailure"
    /\ Result(2) = "Committed"
    /\ Result(3) = "Duplicate"
    /\ Len(processed_keys) = 2

\* C17 -- a call on key k changes at most the entry of k: every other key is
\* present after the call exactly if it was before, with the same Outcome.
OtherKeysUntouched ==
    [][ Completes =>
          /\ \A i \in DOMAIN processed_keys :
                 processed_keys[i][1] # Latest.key
                     => \E j \in DOMAIN processed_keys' :
                            processed_keys'[j] = processed_keys[i]
          /\ \A j \in DOMAIN processed_keys' :
                 processed_keys'[j][1] # Latest.key
                     => \E i \in DOMAIN processed_keys :
                            processed_keys[i] = processed_keys'[j] ]_vars

\* k2 was committed by the latest call while k1 was already stored
OtherKeysUntouchedWitness ==
    /\ Len(history) = 2
    /\ history[1].key = "k1" /\ history[2].key = "k2"
    /\ Result(2) # "Duplicate"
    /\ processed_keys[1] = <<"k1", FormatResult(history[1].amount, "k1")>>
    /\ Len(processed_keys) = 2

\* C18 -- when the driver finishes, the stored keys are exactly the keys it
\* generated, between 1 and max_transactions of them, the Failed one
\* included; the retry adds no key.
DriverStoresEveryKey ==
    /\ Len(processed_keys) = Len(statuses)
    /\ dpc = "done" =>
           /\ {processed_keys[i][1] : i \in DOMAIN processed_keys} = Generated
           /\ snapshot = [i \in DOMAIN statuses |-> statuses[i][1]]
           /\ Len(snapshot) >= 1 /\ Len(snapshot) <= max_transactions
           /\ \A i \in FailedAt : \E j \in DOMAIN snapshot :
                  snapshot[j] = statuses[i][1]

\* the first transaction failed, was retried, and is in the snapshot
DriverStoresEveryKeyWitness ==
    /\ dpc = "done"
    /\ Len(statuses) = 1
    /\ statuses[1][2] = "Failed"
    /\ retry_status # None
    /\ snapshot = <<statuses[1][1]>>
====
